---- MODULE Spec2Model ----
(***************************************************************************)
(* Model of rimage's ImageFormat classifier                                *)
(* (src/config/image_format.rs): ImageFormat::from_ext and                 *)
(* ImageFormat::from_path, for every combination of the cargo features     *)
(* jxl, webp and avif.                                                     *)
(*                                                                         *)
(* An OsStr / Path is a sequence of bytes; a byte is written as a          *)
(* one-character string, and the byte 0xFF (never part of valid UTF-8)     *)
(* stands for platform data that is not text.  Paths follow the Unix       *)
(* flavour of std::path (separator '/', no prefixes).                      *)
(***************************************************************************)
EXTENDS Integers, Sequences, FiniteSets, TLC

VARIABLES features, arg, pc, op, ext_seen, result

vars == <<features, arg, pc, op, ext_seen, result>>

-----------------------------------------------------------------------------
(* Bounds and input alphabet *)

MaxLen == 4

Sep == "/"
Dot == "."
BadByte == "0xFF"

Alphabet == {"p", "n", "g", Dot, Sep, BadByte}

RECURSIVE SeqsUpTo(_, _)
SeqsUpTo(S, n) ==
    IF n = 0 THEN {<<>>}
    ELSE LET shorter == SeqsUpTo(S, n - 1)
         IN  shorter \cup {Append(s, c) : s \in {t \in shorter : Len(t) = n - 1}, c \in S}

Examples ==
    { <<"j","p","g">>, <<"j","p","e","g">>, <<"p","n","g">>,
      <<"j","x","l">>, <<"w","e","b","p">>, <<"a","v","i","f">>,
      <<"g","i","f">>, <<"P","N","G">>, <<>>,
      <<".","j","p","g">>, <<"j","p","g"," ">>, <<"J","p","g">>,
      <<"j","p","g",BadByte>>,
      <<"i","m","a","g","e",".","j","p","g">>,
      <<"i","m","a","g","e",".","j","p","e","g">>,
      <<"x",".","j","x","l">>, <<"x",".","w","e","b","p">>,
      <<"x",".","a","v","i","f">>, <<"x",".","P","N","G">>,
      <<"a","r","c","h","i","v","e",".","t","a","r",".","g","z">>,
      <<"R","E","A","D","M","E">>, <<".","p","n","g">>,
      <<"p","h","o","t","o",".">>,
      <<"d","i","r",".","p","n","g","/","R","E","A","D","M","E">>,
      <<"d","i","r","/","x",".","p","n","g","/">>,
      <<"x",".","j","p","g",BadByte>>, <<"x",".","j","p","g"," ">> }

Inputs == SeqsUpTo(Alphabet, MaxLen) \cup Examples

AllFeatures == {"jxl", "webp", "avif"}

-----------------------------------------------------------------------------
(* Option and Result values *)

None == <<>>
Some(v) == <<v>>

Ok(tag) == [kind |-> "Ok", tag |-> tag]
Missing == [kind |-> "Missing"]
Unknown(text) == [kind |-> "Unknown", text |-> text]

-----------------------------------------------------------------------------
(* std: OsStr::to_str, Path::components, Path::file_name, Path::extension *)

Decodable(s) == \A i \in 1..Len(s) : s[i] # BadByte

\* Variant: a lossy conversion that replaces each undecodable byte.
to_str_lossy(s) ==
    Some([i \in 1..Len(s) |-> IF s[i] = BadByte THEN "?" ELSE s[i]])

to_str(s) == IF Decodable(s) THEN Some(s) ELSE None

\* Pieces of a path between separators, in order (empty pieces included).
RECURSIVE SplitSep(_)
SplitSep(s) ==
    IF \A i \in 1..Len(s) : s[i] # Sep THEN <<s>>
    ELSE LET i == CHOOSE k \in 1..Len(s) :
                      s[k] = Sep /\ \A j \in 1..(k - 1) : s[j] # Sep
         IN  <<SubSeq(s, 1, i - 1)>> \o SplitSep(SubSeq(s, i + 1, Len(s)))

has_root(path) == Len(path) > 0 /\ path[1] = Sep

\* Components of a path: the root, a leading "." of a relative path, "..",
\* and normal names; empty pieces and every other "." are dropped.
Components(path) ==
    LET pieces == SplitSep(path)
        comp(i) ==
            IF pieces[i] = <<>> THEN <<>>
            ELSE IF pieces[i] = <<Dot>>
                 THEN IF i = 1 /\ ~has_root(path)
                      THEN << [kind |-> "CurDir", text |-> pieces[i]] >>
                      ELSE <<>>
            ELSE IF pieces[i] = <<Dot, Dot>>
                 THEN << [kind |-> "ParentDir", text |-> pieces[i]] >>
            ELSE << [kind |-> "Normal", text |-> pieces[i]] >>
        RECURSIVE body(_)
        body(i) == IF i > Len(pieces) THEN <<>> ELSE comp(i) \o body(i + 1)
        root == IF has_root(path)
                THEN << [kind |-> "RootDir", text |-> <<Sep>>] >>
                ELSE <<>>
    IN  root \o body(1)

file_name(path) ==
    LET cs == Components(path)
    IN  IF cs = <<>> THEN None
        ELSE IF cs[Len(cs)].kind = "Normal" THEN Some(cs[Len(cs)].text)
        ELSE None

HasDot(s) == \E i \in 1..Len(s) : s[i] = Dot

LastDot(s) == CHOOSE k \in 1..Len(s) :
                  s[k] = Dot /\ \A j \in (k + 1)..Len(s) : s[j] # Dot

FirstDot(s) == CHOOSE k \in 1..Len(s) :
                   s[k] = Dot /\ \A j \in 1..(k - 1) : s[j] # Dot

\* Variant: an empty suffix after the last dot counts as no extension.
rsplit_empty_is_none(file) ==
    IF file = <<Dot, Dot>> \/ ~HasDot(file) THEN <<Some(file), None>>
    ELSE LET k == LastDot(file)
         IN  IF k = 1 \/ k = Len(file) THEN <<Some(file), None>>
             ELSE <<Some(SubSeq(file, 1, k - 1)), Some(SubSeq(file, k + 1, Len(file)))>>

\* Variant: the check for a name that begins with its only dot is left out.
rsplit_hidden_has_ext(file) ==
    IF file = <<Dot, Dot>> THEN <<Some(file), None>>
    ELSE IF ~HasDot(file) THEN <<None, Some(file)>>
    ELSE LET k == LastDot(file)
         IN  <<Some(SubSeq(file, 1, k - 1)), Some(SubSeq(file, k + 1, Len(file)))>>

\* Variant: the name is split at its first dot instead of its last.
rsplit_at_first_dot(file) ==
    IF file = <<Dot, Dot>> THEN <<Some(file), None>>
    ELSE IF ~HasDot(file) THEN <<None, Some(file)>>
    ELSE LET k == FirstDot(file)
         IN  IF k = 1 THEN <<Some(file), None>>
             ELSE <<Some(SubSeq(file, 1, k - 1)), Some(SubSeq(file, k + 1, Len(file)))>>

\* <<before, after>> around the last dot of a file name, each an Option.
rsplit_file_at_dot(file) ==
    IF file = <<Dot, Dot>> THEN <<Some(file), None>>
    ELSE IF ~HasDot(file) THEN <<None, Some(file)>>
    ELSE LET k == LastDot(file)
             before == SubSeq(file, 1, k - 1)
             after == SubSeq(file, k + 1, Len(file))
         IN  IF before = <<>> THEN <<Some(file), None>>
             ELSE <<Some(before), Some(after)>>

\* Variant: the split is applied to the whole path, not to its file name.
extension_of_whole_path(path) ==
    IF path = <<>> THEN None
    ELSE LET ba == rsplit_file_at_dot(path)
         IN  IF ba[1] = None THEN None ELSE ba[2]

extension(path) ==
    LET f == file_name(path)
    IN  IF f = None THEN None
        ELSE LET ba == rsplit_file_at_dot(f[1])
             IN  IF ba[1] = None THEN None ELSE ba[2]

-----------------------------------------------------------------------------
(* ImageFormat *)

ActiveVariants(fs) ==
    {"Jpeg", "Png"}
        \cup (IF "jxl" \in fs THEN {"JpegXl"} ELSE {})
        \cup (IF "webp" \in fs THEN {"WebP"} ELSE {})
        \cup (IF "avif" \in fs THEN {"Avif"} ELSE {})

ActiveTable(fs) ==
    { <<"j","p","g">>, <<"j","p","e","g">>, <<"p","n","g">> }
        \cup (IF "jxl" \in fs THEN { <<"j","x","l">> } ELSE {})
        \cup (IF "webp" \in fs THEN { <<"w","e","b","p">> } ELSE {})
        \cup (IF "avif" \in fs THEN { <<"a","v","i","f">> } ELSE {})

Lower(c) ==
    IF c = "P" THEN "p" ELSE IF c = "N" THEN "n" ELSE IF c = "G" THEN "g"
    ELSE IF c = "J" THEN "j" ELSE c

MatchArms(fs, s) ==
    IF s = <<"j","p","g">> \/ s = <<"j","p","e","g">> THEN Ok("Jpeg")
    ELSE IF s = <<"p","n","g">> THEN Ok("Png")
    ELSE IF "jxl" \in fs /\ s = <<"j","x","l">> THEN Ok("JpegXl")
    ELSE IF "webp" \in fs /\ s = <<"w","e","b","p">> THEN Ok("WebP")
    ELSE IF "avif" \in fs /\ s = <<"a","v","i","f">> THEN Ok("Avif")
    ELSE Unknown(s)

\* Variant: the "jpeg" spelling is missing from the first arm.
from_ext_no_jpeg(fs, ext) ==
    LET t == to_str(ext)
    IN  IF t = None THEN Missing
        ELSE IF t[1] = <<"j","p","e","g">> THEN Unknown(t[1])
        ELSE MatchArms(fs, t[1])

\* Variant: the extension is lower-cased before it is matched.
from_ext_caseless(fs, ext) ==
    LET t == to_str(ext)
    IN  IF t = None THEN Missing
        ELSE MatchArms(fs, [i \in 1..Len(t[1]) |-> Lower(t[1][i])])

\* Variant: the optional arms are matched whatever the build's features.
from_ext_ungated(fs, ext) ==
    LET t == to_str(ext)
    IN  IF t = None THEN Missing ELSE MatchArms(AllFeatures, t[1])

\* Variant: the "png" arm yields the tag of the arm above it.
from_ext_png_as_jpeg(fs, ext) ==
    LET t == to_str(ext)
    IN  IF t = None THEN Missing
        ELSE IF t[1] = <<"p","n","g">> THEN Ok("Jpeg")
        ELSE MatchArms(fs, t[1])

from_ext(fs, ext) ==
    LET t == to_str(ext)
    IN  IF t = None THEN Missing
        ELSE MatchArms(fs, t[1])

from_path(fs, path) ==
    LET e == extension(path)
    IN  IF e = None THEN Missing ELSE from_ext(fs, e[1])

-----------------------------------------------------------------------------
(* One classification call per behaviour: the build and the argument are    *)
(* fixed in Init, then either operation is applied to the argument.         *)

Init ==
    /\ features \in SUBSET AllFeatures
    /\ arg \in Inputs
    /\ pc = "ready"
    /\ op = "none"
    /\ ext_seen = None
    /\ result = [kind |-> "None"]

CallFromExt ==
    /\ pc = "ready"
    /\ pc' = "done"
    /\ op' = "from_ext"
    /\ ext_seen' = Some(arg)
    /\ result' = from_ext(features, arg)
    /\ UNCHANGED <<features, arg>>

CallFromPath ==
    /\ pc = "ready"
    /\ pc' = "done"
    /\ op' = "from_path"
    /\ ext_seen' = extension(arg)
    /\ result' = from_path(features, arg)
    /\ UNCHANGED <<features, arg>>

Next == CallFromExt \/ CallFromPath

Spec == Init /\ [][Next]_vars

-----------------------------------------------------------------------------
(* Properties *)

jpg == <<"j","p","g">>
jpeg == <<"j","p","e","g">>
png == <<"p","n","g">>
jxl == <<"j","x","l">>
webp == <<"w","e","b","p">>
avif == <<"a","v","i","f">>

CalledExt == pc = "done" /\ op = "from_ext"
CalledPath == pc = "done" /\ op = "from_path"

\* The final component of the argument, when it has one.
HasFinal == file_name(arg) # None
Final == file_name(arg)[1]

\* C1: in every build, from_ext on an extension of the active table returns
\* exactly its tag: jpg and jpeg give Jpeg, png gives Png, and jxl, webp,
\* avif give JpegXl, WebP, Avif when their feature is active.
C1_TableExact ==
    CalledExt =>
        /\ (arg \in {jpg, jpeg} => result = Ok("Jpeg"))
        /\ (arg = png => result = Ok("Png"))
        /\ (arg = jxl /\ "jxl" \in features => result = Ok("JpegXl"))
        /\ (arg = webp /\ "webp" \in features => result = Ok("WebP"))
        /\ (arg = avif /\ "avif" \in features => result = Ok("Avif"))

C1_Witness == CalledExt /\ arg = jpeg /\ features = {"avif"} /\ result = Ok("Jpeg")

\* C2: from_ext on a decodable string that is not in the active table
\* returns Unknown carrying the string verbatim, never a tag and never
\* Missing (no case folding, no trimming, no default format).
C2_UnknownVerbatim ==
    (CalledExt /\ Decodable(arg) /\ arg \notin ActiveTable(features))
        => result = Unknown(arg)

C2_Witness == CalledExt /\ arg = <<"P","N","G">> /\ result = Unknown(<<"P","N","G">>)

\* C3 as stated: from_path on a path whose final component ends in a dot
\* returns Missing, and the empty extension never reaches from_ext.
C3_TrailingDotMissing ==
    (CalledPath /\ HasFinal /\ Final[Len(Final)] = Dot)
        => (result = Missing /\ ext_seen = None)

\* C3 amended: from_path on a path whose final component ends in a dot
\* hands the empty extension to from_ext and returns Unknown("").
C3_TrailingDotUnknownEmpty ==
    (CalledPath /\ HasFinal /\ Final[Len(Final)] = Dot)
        => (result = Unknown(<<>>) /\ ext_seen = Some(<<>>))

C3_Witness ==
    CalledPath /\ arg = <<"p","h","o","t","o",".">> /\ result = Unknown(<<>>)

\* C4: from_path on a path whose final component has no dot at all, or is a
\* hidden-file name whose only dot is its first byte, returns Missing
\* without invoking from_ext.
C4_NoExtensionMissing ==
    (CalledPath /\ HasFinal
        /\ \A i \in 2..Len(Final) : Final[i] # Dot)
        => (result = Missing /\ ext_seen = None)

C4_Witness == CalledPath /\ arg = <<".","p","n","g">> /\ result = Missing

\* C5: when the final component has a dot after its first byte, from_path
\* returns exactly from_ext of the text after the last dot, success or
\* failure unchanged: image.jpg gives Jpeg, archive.tar.gz gives Unknown(gz).
C5_DelegatesToFromExt ==
    CalledPath =>
        /\ (HasFinal /\ (\E i \in 2..Len(Final) : Final[i] = Dot)) =>
              LET k == CHOOSE i \in 2..Len(Final) :
                           Final[i] = Dot /\ \A j \in (i + 1)..Len(Final) : Final[j] # Dot
                  e == SubSeq(Final, k + 1, Len(Final))
              IN  result = from_ext(features, e) /\ ext_seen = Some(e)
        /\ (arg = <<"i","m","a","g","e",".","j","p","g">> => result = Ok("Jpeg"))
        /\ (arg = <<"a","r","c","h","i","v","e",".","t","a","r",".","g","z">>
              => result = Unknown(<<"g","z">>))

C5_Witness ==
    /\ CalledPath
    /\ arg = <<"a","r","c","h","i","v","e",".","t","a","r",".","g","z">>
    /\ result = Unknown(<<"g","z">>)

\* C6: the extension of an optional format whose feature is off resolves to
\* Unknown carrying it, and no call of either operation returns a tag
\* outside the build's active variants.
C6_CapabilityGating ==
    /\ (pc = "done" /\ result.kind = "Ok") => result.tag \in ActiveVariants(features)
    /\ CalledExt =>
          /\ (arg = jxl /\ "jxl" \notin features => result = Unknown(arg))
          /\ (arg = webp /\ "webp" \notin features => result = Unknown(arg))
          /\ (arg = avif /\ "avif" \notin features => result = Unknown(arg))

C6_Witness ==
    CalledExt /\ arg = webp /\ features = {"jxl", "avif"} /\ result = Unknown(webp)

\* C7: from_ext on a value that is not valid text returns Missing, not
\* Unknown; from_path on a path whose extension is not valid text does too.
C7_UndecodableMissing ==
    /\ (CalledExt /\ ~Decodable(arg)) => result = Missing
    /\ (CalledPath /\ ext_seen # None /\ ~Decodable(ext_seen[1])) => result = Missing

C7_Witness ==
    CalledPath /\ arg = <<"x",".","j","p","g",BadByte>> /\ result = Missing

\* C8: in every build each active tag is the result of from_ext on some
\* extension e, and of from_path on the path "x." followed by e.
C8_TableOnto ==
    \A tag \in ActiveVariants(features) :
        \E e \in Examples :
            /\ from_ext(features, e) = Ok(tag)
            /\ from_path(features, <<"x", Dot>> \o e) = Ok(tag)

C8_Witness ==
    /\ CalledPath /\ features = AllFeatures
    /\ arg = <<"x",".","a","v","i","f">> /\ result = Ok("Avif")

DirPrefixes ==
    { <<>>, <<Sep>>, <<"d","i","r",".","p","n","g",Sep>>, <<Dot, Sep>>,
      <<Dot, Dot, Sep>>, <<Sep, "a", ".", Sep, Sep, Dot, "j","p","g", Sep>> }

\* C10: from_path depends only on the final path component: the same final
\* component under any directories gives the same result, a path without a
\* final component gives Missing, dir.png/README gives Missing, and the
\* text of an Unknown returned by from_path has no dot and no separator.
C10_FinalComponentOnly ==
    CalledPath =>
        /\ HasFinal => \A d \in DirPrefixes : from_path(features, d \o Final) = result
        /\ ~HasFinal => result = Missing
        /\ (arg = <<"d","i","r",".","p","n","g","/","R","E","A","D","M","E">>
              => result = Missing)
        /\ result.kind = "Unknown" =>
              \A i \in 1..Len(result.text) : result.text[i] \notin {Dot, Sep}

C10_Witness ==
    /\ CalledPath
    /\ arg = <<"d","i","r",".","p","n","g","/","R","E","A","D","M","E">>
    /\ result = Missing

====
